---- MODULE Spec2Model ----
(***************************************************************************)
(* The drift-monitoring run of load/main.py (drift_monitoring), the        *)
(* detector registry of load/drift_detectors/__init__.py and the seven     *)
(* detectors of numerical_data.py and categorical_data.py.                 *)
(*                                                                         *)
(* Numbers are integers in units of 1e-5 (Unit = 1.0).  A float that is    *)
(* not finite is a value of its own: NaN, PosInf, NegInf.  A Python value  *)
(* that may be absent (None, an unset local) is a sequence of length 0 or  *)
(* 1.  The configuration is a list the run reads entry by entry: the       *)
(* entry an iteration reads is drawn when the iteration starts, and only   *)
(* the number of table entries is fixed from the beginning.                *)
(*                                                                         *)
(* Spec is one run of drift_monitoring.  SpecSeeded is two runs over the   *)
(* same configuration and files, started with the random generator in the  *)
(* same state.  SpecCusum is one call of CUSUM.detect_drift, statement by   *)
(* statement.  SpecProbe is one call of detect_drift on a detector built   *)
(* directly from two frames.                                               *)
(***************************************************************************)
EXTENDS Integers, Sequences, FiniteSets, TLC

VARIABLES
    pc,               \* position of drift_monitoring
    ntables,          \* len(config["drift_detection"]["tables"])
    ti,               \* number of table entries the outer loop has read
    table,            \* the outer loop variable: the table entry being processed
    ci,               \* number of column entries the inner loop has read
    column,           \* the inner loop variable: the column entry being processed
    drift_status,     \* the DriftReport: table id -> column name -> (flag, stat)
    initial_table,    \* the table as read from its file
    historical_data,  \* the historical slice of the current table
    current_data,     \* the recent slice of the current table
    drift_detector,   \* the detector built for the current column
    ret,              \* what the last detect_drift call returned
    error,            \* the exception that ended the run
    emitted,          \* the snapshot handed to the log sink at the end
    splits,           \* history: table entry -> number of splits made for it
    split_pair,       \* history: the pair the last split produced
    calls,            \* history: detect_drift calls made for the current table entry
    failed_load,      \* history: the table entries whose load failed
    configured,       \* history: table id -> column names of the entries read
    seed,             \* state of numpy's global generator when a run starts
    lib,              \* which value the library routines give for given arguments
    runs,             \* the two runs that are compared for reproducibility
    cusum,            \* one call of CUSUM.detect_drift: its locals and position
    probe             \* one call of detect_drift on slices given directly

single == <<pc, ntables, ti, table, ci, column, drift_status, initial_table,
            historical_data,
            current_data, drift_detector, ret, error, emitted, splits,
            split_pair, calls, failed_load, configured>>
seeded == <<seed, lib, runs>>
direct == <<cusum, probe>>
vars == <<single, seeded, direct>>

(***************************************************************************)
(* Bounds of the model.                                                    *)
(***************************************************************************)
MaxTables == 2
MaxCols == 2
MaxRows == 3
MaxSeed == 2
MaxLib == 2
MaxScan == 2

(***************************************************************************)
(* Numbers.                                                                *)
(***************************************************************************)
Unit == 100000

Num(n) == [kind |-> "num", v |-> <<n>>]
NaN == [kind |-> "nan", v |-> <<>>]
PosInf == [kind |-> "inf", v |-> <<1>>]
NegInf == [kind |-> "inf", v |-> <<-1>>]
List(s) == [kind |-> "list", v |-> s]

IsNum(x) == x.kind = "num"
Val(x) == x.v[1]

\* a < b on floats: every comparison with NaN is false.
Lt(a, b) ==
    CASE a.kind = "nan" \/ b.kind = "nan" -> FALSE
      [] a.kind = "inf" /\ b.kind = "inf" -> Val(a) < Val(b)
      [] a.kind = "inf" -> Val(a) < 0
      [] b.kind = "inf" -> Val(b) > 0
      [] OTHER -> Val(a) < Val(b)

Gt(a, b) == Lt(b, a)

\* abs(x) on floats.
Abs(x) ==
    CASE x.kind = "num" -> Num(IF Val(x) < 0 THEN -Val(x) ELSE Val(x))
      [] x.kind = "inf" -> PosInf
      [] OTHER -> x

None == <<>>
Some(x) == <<x>>
EmptyMap == [x \in {} |-> 0]
Put(f, k, val) == [x \in (DOMAIN f) \cup {k} |-> IF x = k THEN val ELSE f[x]]

Raise(type, msg, arg) == [kind |-> "raise", exc |-> <<type, msg, arg>>]
Return(val) == [kind |-> "return", value |-> val]

(***************************************************************************)
(* Tables.  A DataFrame is its column names and its rows in order; a row   *)
(* is its index label and its cells.  The files of the run have the        *)
(* column "amount"; no file has the column "ghost".  A file is read with   *)
(* any number of rows up to MaxRows.                                       *)
(***************************************************************************)
TableIds == {"a.csv", "b.csv", "gone.csv"}
Readable == {"a.csv", "b.csv"}
FileColumns == {"amount"}
ColNames == FileColumns \cup {"ghost"}
Row(i) == [index |-> i]

\* The cell of a row: the amount grows with the row's position.
Cell(row, name) == row.index * Unit

Frame(rows) == [columns |-> FileColumns, rows |-> rows]
NoFrame == [columns |-> {}, rows |-> <<>>]

\* The frames a readable file can hold: n rows under the RangeIndex 0..n-1.
Frames == {Frame([i \in 1..n |-> Row(i - 1)]) : n \in 0..MaxRows}

\* pd.read_csv(path)
read_csv(path) ==
    IF path \in Readable
    THEN {Return(f) : f \in Frames}
    ELSE {Raise("FileNotFoundError", "No such file or directory: ", path)}

\* frame.index, as the set of its labels
IndexOf(frame) == {frame.rows[i].index : i \in DOMAIN frame.rows}

\* round(frac * n) for frac = tenths / 10 (round half to even)
RoundFrac(tenths, n) ==
    LET q == (tenths * n) \div 10
        r == (tenths * n) % 10
    IN  IF r > 5 \/ (r = 5 /\ q % 2 = 1) THEN q + 1 ELSE q

\* frame.sample(frac): round(frac * n) rows drawn without replacement, in
\* the order drawn; every draw is possible.
sample(frame, tenths) ==
    LET n == Len(frame.rows)
        k == RoundFrac(tenths, n)
        draws == {d \in [1..k -> 1..n] : \A i, j \in 1..k : d[i] = d[j] => i = j}
    IN  {[columns |-> frame.columns, rows |-> [i \in 1..k |-> frame.rows[d[i]]]]
         : d \in draws}

Keep(rows, labels) ==
    LET F[i \in 0..Len(rows)] ==
            IF i = 0 THEN <<>>
            ELSE IF rows[i].index \in labels THEN F[i - 1]
                 ELSE Append(F[i - 1], rows[i])
    IN  F[Len(rows)]

\* frame.drop(labels): the rows whose label is not among labels, in order
drop(frame, labels) == [columns |-> frame.columns, rows |-> Keep(frame.rows, labels)]

\* frame[column_name]: the column as a Series, or KeyError
HasColumn(frame, name) == name \in frame.columns
Series(frame, name) ==
    [i \in DOMAIN frame.rows |->
        [index |-> frame.rows[i].index, value |-> Cell(frame.rows[i], name)]]

(***************************************************************************)
(* The split of lines 40-41 of load/main.py.                               *)
(***************************************************************************)
SampleTenths == 8

\* Mutant: the recent slice is a second sample instead of the rest.
Split_independent(frame) ==
    {[historical |-> h, current |-> c]
     : h \in sample(frame, SampleTenths), c \in sample(frame, 10 - SampleTenths)}

Split(frame) ==
    {[historical |-> h, current |-> drop(frame, IndexOf(h))]
     : h \in sample(frame, SampleTenths)}

(***************************************************************************)
(* The detectors.  A detector is its class and its dataclass fields.       *)
(***************************************************************************)
DefaultAlpha == 5000
DefaultBins == 10
DefaultEpsilon == 1
DefaultThreshold == 10000

KSTest(h, r) ==
    [class |-> "KSTest", historical_data |-> h, recent_data |-> r,
     alpha |-> DefaultAlpha]
PSICalculator(h, r) ==
    [class |-> "PSICalculator", historical_data |-> h, recent_data |-> r,
     bins |-> DefaultBins, epsilon |-> DefaultEpsilon, threshold |-> DefaultThreshold]
ZTest(h, r) ==
    [class |-> "ZTest", historical_data |-> h, recent_data |-> r,
     alpha |-> DefaultAlpha]
CUSUM(h, r) ==
    [class |-> "CUSUM", historical_data |-> h, recent_data |-> r,
     threshold |-> DefaultThreshold]
KLDivergence(h, r) ==
    [class |-> "KLDivergence", historical_data |-> h, recent_data |-> r,
     num_bins |-> DefaultBins, threshold |-> DefaultThreshold]
ChiSquaredTest(h, r) ==
    [class |-> "ChiSquaredTest", historical_data |-> h, recent_data |-> r,
     alpha |-> DefaultAlpha]
CramersVTest(h, r) ==
    [class |-> "CramersVTest", historical_data |-> h, recent_data |-> r,
     alpha |-> DefaultAlpha]

\* detector_class(historical_data, recent_data)
Construct(class, h, r) ==
    CASE class = "ZTest" -> ZTest(h, r)
      [] class = "PSICalculator" -> PSICalculator(h, r)
      [] class = "ChiSquaredTest" -> ChiSquaredTest(h, r)
      [] class = "CramersVTest" -> CramersVTest(h, r)
      [] class = "KSTest" -> KSTest(h, r)
      [] class = "CUSUM" -> CUSUM(h, r)
      [] class = "KLDivergence" -> KLDivergence(h, r)

\* The registry of get_drift_detector.
detectors ==
    ("z_test" :> "ZTest") @@ ("psi_calculator" :> "PSICalculator")
    @@ ("chi_squared_test" :> "ChiSquaredTest")
    @@ ("cramers_v_test" :> "CramersVTest") @@ ("ks_test" :> "KSTest")
    @@ ("cusum" :> "CUSUM") @@ ("kl_divergence" :> "KLDivergence")

\* Mutant: a lookup that falls back to a default detector class.
detectors_get_default(detector_name) ==
    IF detector_name \in DOMAIN detectors THEN Some(detectors[detector_name])
    ELSE Some("ZTest")

\* detectors.get(detector_name): None for a name that is no key
detectors_get(detector_name) ==
    IF detector_name \in DOMAIN detectors THEN Some(detectors[detector_name]) ELSE None

get_drift_detector(detector_name, h, r) ==
    LET detector_class == detectors_get(detector_name)
    IN  IF detector_class = None
        THEN Raise("ValueError", "Handler does not exist: ", detector_name)
        ELSE Return(Construct(detector_class[1], h, r))

(***************************************************************************)
(* Library routines.  What a routine computes in floating point is drawn   *)
(* from a small set of the values it can return; what the code decides     *)
(* from the value is computed.                                             *)
(***************************************************************************)
PValues == {Num(0), Num(DefaultAlpha)}
DistanceValues == {Num(DefaultThreshold), Num(2 * DefaultThreshold)}
ZScores == {Num(0), Num(3 * Unit), NaN}

\* scipy.stats.ks_2samp: an empty sample is refused, or answered with NaN
ks_2samp(d1, d2) ==
    IF Len(d1) = 0 \/ Len(d2) = 0
    THEN {Raise("ValueError", "Data passed to ks_2samp must not be empty", ""),
          Return(NaN)}
    ELSE {Return(p) : p \in PValues}

\* pd.crosstab(s1, s2): the two Series are aligned on the index labels they
\* share, and the pairs of values at those labels are counted.
crosstab(s1, s2) ==
    LET common == {c \in (DOMAIN s1) \X (DOMAIN s2) : s1[c[1]].index = s2[c[2]].index}
    IN  [rows |-> {s1[c[1]].value : c \in common},
         cols |-> {s2[c[2]].value : c \in common},
         n |-> Cardinality(common)]

MinDim(t) == IF Cardinality(t.rows) < Cardinality(t.cols)
             THEN Cardinality(t.rows) ELSE Cardinality(t.cols)

\* scipy.stats.chi2_contingency: (chi2, p), or ValueError on an empty table
chi2_contingency(t) ==
    IF t.n = 0
    THEN {Raise("ValueError", "No data; observed has size 0.", "")}
    ELSE {Return(<<Num(0), Num(Unit)>>)}
         \cup (IF MinDim(t) > 1
               THEN {Return(<<Num(t.n * (MinDim(t) - 1) * Unit), Num(0)>>),
                     Return(<<Num(t.n * (MinDim(t) - 1) * Unit),
                              Num(4 * DefaultAlpha)>>)}
               ELSE {})

RECURSIVE ISqrtIn(_, _, _)
ISqrtIn(x, lo, hi) ==
    IF lo = hi THEN lo
    ELSE LET mid == (lo + hi + 1) \div 2
         IN  IF mid * mid <= x THEN ISqrtIn(x, mid, hi) ELSE ISqrtIn(x, lo, mid - 1)

\* np.sqrt, to three decimals
np_sqrt(x) ==
    CASE x.kind = "nan" -> NaN
      [] x.kind = "inf" -> IF Val(x) > 0 THEN PosInf ELSE NaN
      [] Val(x) < 0 -> NaN
      [] OTHER -> Num(ISqrtIn(Val(x) * 10, 0, 40000) * 100)

\* chi2 / (n * (min_dim - 1)) in numpy floats: 0/0 is NaN, x/0 is infinite
np_divide(x, d) ==
    CASE x.kind # "num" -> x
      [] d = 0 -> IF Val(x) = 0 THEN NaN ELSE IF Val(x) > 0 THEN PosInf ELSE NegInf
      [] OTHER -> Num(Val(x) \div d)

\* 2 * (1 - norm.cdf(abs(z)))
TwoSidedP(z) ==
    CASE z.kind = "nan" -> NaN
      [] z.kind = "inf" -> Num(0)
      [] Val(Abs(z)) = 0 -> Num(Unit)
      [] Val(Abs(z)) < 195996 -> Num(2 * DefaultAlpha)
      [] Val(Abs(z)) = 195996 -> Num(DefaultAlpha)
      [] OTHER -> Num(270)

\* norm.ppf(1 - alpha / 2)
ZCritical(alpha) ==
    CASE alpha = DefaultAlpha -> Num(195996)
      [] alpha < DefaultAlpha -> Num(257583)
      [] OTHER -> Num(164485)

np_isnan(x) == x.kind = "nan"
np_isinf(x) == x.kind = "inf"

(***************************************************************************)
(* detect_drift of the seven detectors: the set of ways a call can end,    *)
(* Raise(...) or Return(<<drift_detected, statistic>>).                    *)
(***************************************************************************)
\* Mutant: only the historical slice is asked for the column.
MissingColumn_hist_only(self, column_name) ==
    ~HasColumn(self.historical_data, column_name)

\* self.historical_data[column_name], then self.recent_data[column_name]
MissingColumn(self, column_name) ==
    \/ ~HasColumn(self.historical_data, column_name)
    \/ ~HasColumn(self.recent_data, column_name)

KeyError(column_name) == Raise("KeyError", "", column_name)

Hist(self, column_name) == Series(self.historical_data, column_name)
Recent(self, column_name) == Series(self.recent_data, column_name)

KSTest_detect_drift(self, column_name) ==
    IF MissingColumn(self, column_name) THEN {KeyError(column_name)}
    ELSE {IF o.kind = "raise" THEN o
          ELSE Return(<<Lt(o.value, Num(self.alpha)), o.value>>)
          : o \in ks_2samp(Hist(self, column_name), Recent(self, column_name))}

RECURSIVE SumSeq(_)
SumSeq(q) == IF q = <<>> THEN 0 ELSE Head(q) + SumSeq(Tail(q))

Values(series) == [i \in DOMAIN series |-> series[i].value]

MinOf(q) == CHOOSE x \in {q[i] : i \in DOMAIN q} : \A i \in DOMAIN q : x <= q[i]
MaxOf(q) == CHOOSE x \in {q[i] : i \in DOMAIN q} : \A i \in DOMAIN q : x >= q[i]

\* np.histogram(a, bins=edges): a value is counted in the bin whose edges
\* enclose it, the last bin being closed on the right; a value below the
\* first edge or above the last one is counted nowhere.
InBin(x, edges, j) ==
    /\ edges[j] <= x
    /\ \/ x < edges[j + 1]
       \/ j = Len(edges) - 1 /\ x = edges[j + 1]
np_histogram_edges(a, edges) ==
    [j \in 1..(Len(edges) - 1) |->
        Cardinality({i \in DOMAIN a : InBin(a[i], edges, j)})]

\* np.histogram(a, bins=n): n bins of equal width from min(a) to max(a); the
\* range is (0, 1) for no values and (min - 0.5, max + 0.5) for equal ones.
np_histogram(a, bins) ==
    LET first == IF Len(a) = 0 THEN 0
                 ELSE IF MinOf(a) = MaxOf(a) THEN MinOf(a) - Unit \div 2 ELSE MinOf(a)
        last == IF Len(a) = 0 THEN Unit
                ELSE IF MinOf(a) = MaxOf(a) THEN MaxOf(a) + Unit \div 2 ELSE MaxOf(a)
        bin_edges == [j \in 1..(bins + 1) |->
                         first + ((last - first) * (j - 1)) \div bins]
    IN  [counts |-> np_histogram_edges(a, bin_edges), edges |-> bin_edges]

\* Lines 83-86 and 234-237: the edges come from the historical values and
\* are applied to the recent ones.
Binned(self, column_name, bins) ==
    LET h == np_histogram(Values(Hist(self, column_name)), bins)
    IN  [hist_counts |-> h.counts, bin_edges |-> h.edges,
         recent_counts |-> np_histogram_edges(Values(Recent(self, column_name)),
                                              h.edges)]

\* sum((recent_probs - hist_probs) * log(recent_probs / hist_probs)) with
\* epsilon added to every count: finite; 0 when the two probability vectors
\* are equal, positive otherwise.
PSIValues(hist_counts, recent_counts, epsilon) ==
    LET H == SumSeq(hist_counts)
        R == SumSeq(recent_counts)
        B == Len(hist_counts)
    IN  \* (h + eps) * (R + B * eps) = (r + eps) * (H + B * eps), times Unit
        IF \A j \in DOMAIN hist_counts :
              (hist_counts[j] * R - recent_counts[j] * H) * Unit
              + epsilon * (B * (hist_counts[j] - recent_counts[j]) + R - H) = 0
        THEN {Num(0)}
        ELSE DistanceValues

PSICalculator_detect_drift(self, column_name) ==
    IF MissingColumn(self, column_name) THEN {KeyError(column_name)}
    ELSE LET b == Binned(self, column_name, self.bins)
         IN  {Return(<<Gt(psi, Num(self.threshold)), psi>>)
              : psi \in PSIValues(b.hist_counts, b.recent_counts, self.epsilon)}

\* entropy(hist_probs, recent_probs): NaN when a sample has no counts (its
\* probabilities are 0 / 0), infinite when a recent bin is empty where the
\* historical one is not, 0 for equal probability vectors.
KLValues(hist_counts, recent_counts) ==
    LET H == SumSeq(hist_counts)
        R == SumSeq(recent_counts)
    IN  IF H = 0 \/ R = 0 THEN {NaN}
        ELSE IF \E j \in DOMAIN hist_counts : hist_counts[j] > 0 /\ recent_counts[j] = 0
        THEN {PosInf}
        ELSE IF \A j \in DOMAIN hist_counts : hist_counts[j] * R = recent_counts[j] * H
        THEN {Num(0)}
        ELSE DistanceValues

KLDivergence_detect_drift(self, column_name) ==
    IF MissingColumn(self, column_name) THEN {KeyError(column_name)}
    ELSE LET b == Binned(self, column_name, self.num_bins)
         IN  {Return(<<Gt(kld, Num(self.threshold)), kld>>)
              : kld \in KLValues(b.hist_counts, b.recent_counts)}

\* (mean1 - mean2) / sqrt(std1**2 / n1 + std2**2 / n2)
ZScoreOf(n1, n2) ==
    IF n1 = 0 \/ n2 = 0
    THEN {Raise("ZeroDivisionError", "float division by zero", ""), Return(NaN)}
    ELSE IF n1 < 2 \/ n2 < 2 THEN {Return(NaN)}
    ELSE {Return(z) : z \in ZScores}

ZTest_detect_drift(self, column_name) ==
    IF MissingColumn(self, column_name) THEN {KeyError(column_name)}
    ELSE {IF o.kind = "raise" THEN o
          ELSE Return(<<Gt(Abs(o.value), ZCritical(self.alpha)), TwoSidedP(o.value)>>)
          : o \in ZScoreOf(Len(self.historical_data.rows), Len(self.recent_data.rows))}

ChiSquaredTest_detect_drift(self, column_name) ==
    IF MissingColumn(self, column_name) THEN {KeyError(column_name)}
    ELSE {IF o.kind = "raise" THEN o
          ELSE Return(<<Lt(o.value[2], Num(self.alpha)), o.value[2]>>)
          : o \in chi2_contingency(
                     crosstab(Hist(self, column_name), Recent(self, column_name)))}

CramersVTest_detect_drift(self, column_name) ==
    IF MissingColumn(self, column_name) THEN {KeyError(column_name)}
    ELSE LET t == crosstab(Hist(self, column_name), Recent(self, column_name))
         IN  {IF o.kind = "raise" THEN o
              ELSE Return(<<Lt(o.value[2], Num(self.alpha)),
                            np_sqrt(np_divide(o.value[1], t.n * (MinDim(t) - 1)))>>)
              : o \in chi2_contingency(t)}

\* The loop of lines 190-198, with every sum multiplied by n = len(historical)
\* so that the deviations from the mean sumH / n stay integers.  With n = 0
\* the mean is NaN, max(0, NaN) = 0 = min(0, NaN), and nothing is recorded.
RECURSIVE CusumScan(_, _, _, _, _, _, _, _)
CusumScan(data, i, s_pos, s_neg, drift_indices, n, sumH, threshold) ==
    IF i > Len(data) THEN drift_indices
    ELSE LET deviation == data[i] * n - sumH
             pos == IF s_pos + deviation > 0 THEN s_pos + deviation ELSE 0
             neg == IF s_neg + deviation < 0 THEN s_neg + deviation ELSE 0
         IN  IF n > 0 /\ (pos > threshold * n \/ neg < -(threshold * n))
             THEN CusumScan(data, i + 1, 0, 0, Append(drift_indices, i - 1),
                            n, sumH, threshold)
             ELSE CusumScan(data, i + 1, IF n > 0 THEN pos ELSE 0,
                            IF n > 0 THEN neg ELSE 0, drift_indices, n, sumH, threshold)

\* recent.concat(historical): pandas' Series has no method concat, and the
\* call raises AttributeError; lines 190-201 are written for a call that
\* returns the recent values followed by the historical ones.  Both are kept.
Series_concat(s1, s2) ==
    {Raise("AttributeError", "'Series' object has no attribute ", "concat"),
     Return(Values(s1) \o Values(s2))}

CUSUM_detect_drift(self, column_name) ==
    IF MissingColumn(self, column_name) THEN {KeyError(column_name)}
    ELSE LET h == Values(Hist(self, column_name))
         IN  {IF o.kind = "raise" THEN o
              ELSE LET drift_indices ==
                           CusumScan(o.value, 1, 0, 0, <<>>, Len(h), SumSeq(h),
                                     self.threshold)
                   IN  Return(<<Len(drift_indices) > 0, List(drift_indices)>>)
              : o \in Series_concat(Recent(self, column_name), Hist(self, column_name))}

detect_drift(self, column_name) ==
    CASE self.class = "KSTest" -> KSTest_detect_drift(self, column_name)
      [] self.class = "PSICalculator" -> PSICalculator_detect_drift(self, column_name)
      [] self.class = "ZTest" -> ZTest_detect_drift(self, column_name)
      [] self.class = "CUSUM" -> CUSUM_detect_drift(self, column_name)
      [] self.class = "KLDivergence" -> KLDivergence_detect_drift(self, column_name)
      [] self.class = "ChiSquaredTest" -> ChiSquaredTest_detect_drift(self, column_name)
      [] self.class = "CramersVTest" -> CramersVTest_detect_drift(self, column_name)

(***************************************************************************)
(* The configuration entries a run can read.  A column entry has the keys  *)
(* name and method, which the run reads, and may carry method parameters.  *)
(***************************************************************************)
MethodIds == (DOMAIN detectors) \cup {"bogus_test", "ZTest"}
ParamSets == {EmptyMap, ("alpha" :> 1000) @@ ("threshold" :> 20000)}
ColumnEntries == [name : ColNames, method : MethodIds, params : ParamSets]

NoTable == [current_table |-> "", ncols |-> 0]
NoColumn == [name |-> "", method |-> "", params |-> EmptyMap]

(***************************************************************************)
(* drift_monitoring, lines 50-54: the statistic as it is recorded.         *)
(* np.isnan(stat) | np.isinf(stat) of a list is an array, and the truth    *)
(* value of an array is its element's when it has one element, an error    *)
(* when it has several, and False or an error (by numpy release) when it   *)
(* has none.                                                               *)
(***************************************************************************)
\* Mutant: only NaN is replaced, an infinite statistic is recorded as it is.
Sanitize_nan_only(stat) ==
    IF stat.kind = "list" THEN {Return(stat)}
    ELSE {Return(IF np_isnan(stat) THEN Num(0) ELSE stat)}

Sanitize(stat) ==
    CASE stat.kind # "list" ->
            {Return(IF np_isnan(stat) \/ np_isinf(stat) THEN Num(0) ELSE stat)}
      [] Len(stat.v) = 1 -> {Return(stat)}
      [] Len(stat.v) = 0 ->
            {Return(stat),
             Raise("ValueError", "The truth value of an empty array is ambiguous", "")}
      [] OTHER ->
            {Raise("ValueError",
                   "The truth value of an array with more than one element is ambiguous",
                   "")}

\* Mutant: the flag is decided again, from the statistic that is recorded.
Record_flag_from_stat(status, table_id, column_name, drift_detected, stat) ==
    Put(status, table_id,
        Put(status[table_id], column_name,
            <<stat.kind = "num" /\ Gt(stat, Num(DefaultThreshold)), stat>>))

\* drift_status[table].update({column: (drift_detected, stat)})
Record(status, table_id, column_name, drift_detected, stat) ==
    Put(status, table_id, Put(status[table_id], column_name, <<drift_detected, stat>>))

\* drift_status[table["current_table"]] = {}
OpenTable(status, table_id) == Put(status, table_id, EmptyMap)

\* Mutant: the two slices are passed in the wrong order.
Dispatch_swapped(entry) == get_drift_detector(entry.method, current_data, historical_data)

\* historical_data and current_data as passed to get_drift_detector
Dispatch(entry) == get_drift_detector(entry.method, historical_data, current_data)

Bump(f, i) == [f EXCEPT ![i] = @ + 1]

\* The column names read so far from the entries of a table id.
Noted(conf, table_id, names) ==
    Put(conf, table_id,
        (IF table_id \in DOMAIN conf THEN conf[table_id] ELSE {}) \cup names)

InitRun ==
    /\ pc = "tables"
    /\ ntables \in 0..MaxTables
    /\ ti = 0
    /\ table = NoTable
    /\ ci = 0
    /\ column = NoColumn
    /\ drift_status = EmptyMap
    /\ initial_table = NoFrame
    /\ historical_data = NoFrame
    /\ current_data = NoFrame
    /\ drift_detector = None
    /\ ret = None
    /\ error = None
    /\ emitted = None
    /\ splits = [i \in 1..ntables |-> 0]
    /\ split_pair = None
    /\ calls = 0
    /\ failed_load = {}
    /\ configured = EmptyMap

\* One run of drift_monitoring; the pair of runs is not used.
Init ==
    /\ InitRun
    /\ seed = 1
    /\ lib = 1
    /\ runs = <<>>
    /\ cusum = <<>>
    /\ probe = <<>>

\* Lines 32-41: one iteration of the outer loop up to the inner loop.  The
\* key of the table is set to {} before the file is read.
TableStep ==
    /\ pc = "tables" /\ ti < ntables
    /\ \E id \in TableIds, k \in 0..MaxCols :
         /\ table' = [current_table |-> id, ncols |-> k]
         /\ drift_status' = OpenTable(drift_status, id)
         /\ configured' = Noted(configured, id, {})
         /\ \E o \in read_csv(id) :
              IF o.kind = "raise"
              THEN /\ error' = Some(o.exc)
                   /\ failed_load' = failed_load \cup {ti + 1}
                   /\ pc' = "raised"
                   /\ UNCHANGED <<initial_table, historical_data, current_data,
                                  splits, split_pair>>
              ELSE /\ initial_table' = o.value
                   /\ \E sp \in Split(o.value) :
                        /\ historical_data' = sp.historical
                        /\ current_data' = sp.current
                        /\ split_pair' = Some(sp)
                   /\ splits' = Bump(splits, ti + 1)
                   /\ pc' = "columns"
                   /\ UNCHANGED <<error, failed_load>>
    /\ ti' = ti + 1
    /\ ci' = 0
    /\ calls' = 0
    /\ UNCHANGED <<ntables, column, drift_detector, ret, emitted, seeded, direct>>

\* Lines 43-58: one iteration of the inner loop.  An exception of
\* get_drift_detector, of detect_drift or of the test at line 50 ends the run.
ColumnStep ==
    /\ pc = "columns" /\ ci < table.ncols
    /\ ci' = ci + 1
    /\ \E entry \in ColumnEntries :
         /\ column' = entry
         /\ configured' = Noted(configured, table.current_table, {entry.name})
         /\ LET got == Dispatch(entry)
            IN  IF got.kind = "raise"
                THEN /\ error' = Some(got.exc)
                     /\ pc' = "raised"
                     /\ UNCHANGED <<drift_detector, ret, drift_status, calls>>
                ELSE /\ drift_detector' = Some(got.value)
                     /\ calls' = calls + 1
                     /\ \E o \in detect_drift(got.value, entry.name) :
                          IF o.kind = "raise"
                          THEN /\ error' = Some(o.exc)
                               /\ pc' = "raised"
                               /\ UNCHANGED <<ret, drift_status>>
                          ELSE /\ ret' = Some(o.value)
                               /\ \E s \in Sanitize(o.value[2]) :
                                    IF s.kind = "raise"
                                    THEN /\ error' = Some(s.exc)
                                         /\ pc' = "raised"
                                         /\ UNCHANGED drift_status
                                    ELSE /\ drift_status' =
                                              Record(drift_status, table.current_table,
                                                     entry.name, o.value[1], s.value)
                                         /\ UNCHANGED <<pc, error>>
    /\ UNCHANGED <<ntables, ti, table, initial_table, historical_data,
                   current_data, emitted, splits, split_pair, failed_load, seeded, direct>>

\* Line 43 when the columns of the table are exhausted.  The locals of the
\* loop bodies are dead from here on: the next iteration that could read
\* them assigns them first, and line 60 reads drift_status only.
EndColumns ==
    /\ pc = "columns" /\ ci = table.ncols
    /\ pc' = "tables"
    /\ table' = NoTable
    /\ ci' = 0
    /\ column' = NoColumn
    /\ initial_table' = NoFrame
    /\ historical_data' = NoFrame
    /\ current_data' = NoFrame
    /\ drift_detector' = None
    /\ ret' = None
    /\ split_pair' = None
    /\ calls' = 0
    /\ UNCHANGED <<ntables, ti, drift_status, error, emitted, splits, failed_load,
                   configured, seeded, direct>>

\* Line 60, when the tables are exhausted.
Emit ==
    /\ pc = "tables" /\ ti = ntables
    /\ emitted' = Some(drift_status)
    /\ pc' = "done"
    /\ UNCHANGED <<ntables, ti, table, ci, column, drift_status, initial_table,
                   historical_data, current_data, drift_detector, ret, error,
                   splits, split_pair, calls, failed_load, configured, seeded,
                   direct>>

Next ==
    \/ TableStep
    \/ ColumnStep
    \/ EndColumns
    \/ Emit

Spec == Init /\ [][Next]_vars

(***************************************************************************)
(* Two runs of drift_monitoring over the same configuration and the same   *)
(* files, each started with numpy's global generator in the state seed.    *)
(* sample(frac=0.8) is called without random_state, so it draws from that  *)
(* generator and advances it.  A library routine is a function: the same   *)
(* arguments give the same value in both runs, and other arguments may     *)
(* give another value; lib names which function it is.  The two runs read  *)
(* the same entries, so an entry is drawn once and handed to every run     *)
(* that has not ended.                                                     *)
(***************************************************************************)
\* The k-th element of a set, in an order that is the same for every call.
RECURSIVE Pick(_, _)
Pick(S, k) ==
    LET first == CHOOSE x \in S : TRUE
    IN  IF k <= 1 \/ S = {first} THEN first ELSE Pick(S \ {first}, k - 1)

\* What tells one pair of slices from another: the index labels, weighted
\* by their position in the slice.
Digest(self) ==
    SumSeq([i \in DOMAIN self.historical_data.rows |->
               i * (self.historical_data.rows[i].index + 1)])
    + SumSeq([i \in DOMAIN self.recent_data.rows |->
               (i + 1) * (self.recent_data.rows[i].index + 1)])

\* The outcome of a library-backed call as a function of its arguments.
LibValue(outcomes, self) ==
    Pick(outcomes, 1 + ((lib + Digest(self)) % Cardinality(outcomes)))

\* The generator after one draw.
RngNext(rng) == (rng % MaxSeed) + 1

\* Mutant: the split draws from a source that the seed does not fix.
SeededSplit_unseeded(frame, rng) == Split(frame)

\* Lines 40-41 with the generator in state rng: the draw is the generator's.
SeededSplit(frame, rng) ==
    LET h == Pick(sample(frame, SampleTenths), rng)
    IN  {[historical |-> h, current |-> drop(frame, IndexOf(h))]}

Run0(rng) ==
    [pc |-> "tables", ti |-> 0, ci |-> 0, table |-> NoTable, rng |-> rng,
     historical_data |-> NoFrame, current_data |-> NoFrame,
     drift_status |-> EmptyMap, error |-> None, emitted |-> None]

\* Lines 32-41 for one run, given the entry and what read_csv gave.
RunTableStep(run, id, k, o) ==
    LET opened == [run EXCEPT !.ti = @ + 1, !.ci = 0,
                              !.table = [current_table |-> id, ncols |-> k],
                              !.drift_status = OpenTable(@, id)]
    IN  IF o.kind = "raise"
        THEN {[opened EXCEPT !.pc = "raised", !.error = Some(o.exc)]}
        ELSE {[opened EXCEPT !.pc = "columns", !.rng = RngNext(@),
                             !.historical_data = sp.historical,
                             !.current_data = sp.current]
              : sp \in SeededSplit(o.value, run.rng)}

\* Lines 43-58 for one run, given the keys of the column entry that the
\* run reads, name and method.
RunColumnStep(run, entry) ==
    LET next == [run EXCEPT !.ci = @ + 1]
        got == get_drift_detector(entry.method, run.historical_data, run.current_data)
    IN  IF got.kind = "raise"
        THEN [next EXCEPT !.pc = "raised", !.error = Some(got.exc)]
        ELSE LET o == LibValue(detect_drift(got.value, entry.name), got.value)
             IN  IF o.kind = "raise"
                 THEN [next EXCEPT !.pc = "raised", !.error = Some(o.exc)]
                 ELSE LET st == LibValue(Sanitize(o.value[2]), got.value)
                      IN  IF st.kind = "raise"
                          THEN [next EXCEPT !.pc = "raised", !.error = Some(st.exc)]
                          ELSE [next EXCEPT !.drift_status =
                                   Record(@, run.table.current_table, entry.name,
                                          o.value[1], st.value)]

RunEndColumns(run) ==
    [run EXCEPT !.pc = "tables", !.ci = 0, !.table = NoTable,
                !.historical_data = NoFrame, !.current_data = NoFrame]

RunEmit(run) == [run EXCEPT !.pc = "done", !.emitted = Some(run.drift_status)]

AtTable(run) == run.pc = "tables" /\ run.ti < ntables
AtColumn(run) == run.pc = "columns" /\ run.ci < run.table.ncols
AtEndColumns(run) == run.pc = "columns" /\ run.ci = run.table.ncols
AtEmit(run) == run.pc = "tables" /\ run.ti = ntables

InitSeeded ==
    /\ InitRun
    /\ seed \in 1..MaxSeed
    /\ lib \in 1..MaxLib
    /\ runs = [r \in 1..2 |-> Run0(seed)]
    /\ cusum = <<>>
    /\ probe = <<>>

SeededTableStep ==
    /\ \E r \in 1..2 : AtTable(runs[r])
    /\ \E id \in TableIds, k \in 0..MaxCols :
         \E o \in read_csv(id) :
           \E n1 \in (IF AtTable(runs[1]) THEN RunTableStep(runs[1], id, k, o)
                      ELSE {runs[1]}),
              n2 \in (IF AtTable(runs[2]) THEN RunTableStep(runs[2], id, k, o)
                      ELSE {runs[2]}) :
              runs' = <<n1, n2>>
    /\ UNCHANGED <<single, seed, lib, direct>>

SeededColumnStep ==
    /\ \E r \in 1..2 : AtColumn(runs[r])
    /\ \E name \in ColNames, method \in MethodIds :
         runs' = [r \in 1..2 |-> IF AtColumn(runs[r])
                                 THEN RunColumnStep(runs[r],
                                                    [name |-> name, method |-> method])
                                 ELSE runs[r]]
    /\ UNCHANGED <<single, seed, lib, direct>>

SeededEndColumns ==
    /\ \E r \in 1..2 : AtEndColumns(runs[r])
    /\ runs' = [r \in 1..2 |-> IF AtEndColumns(runs[r])
                               THEN RunEndColumns(runs[r]) ELSE runs[r]]
    /\ UNCHANGED <<single, seed, lib, direct>>

SeededEmit ==
    /\ \E r \in 1..2 : AtEmit(runs[r])
    /\ runs' = [r \in 1..2 |-> IF AtEmit(runs[r]) THEN RunEmit(runs[r]) ELSE runs[r]]
    /\ UNCHANGED <<single, seed, lib, direct>>

NextSeeded ==
    \/ SeededTableStep
    \/ SeededColumnStep
    \/ SeededEndColumns
    \/ SeededEmit

SpecSeeded == InitSeeded /\ [][NextSeeded]_vars

(***************************************************************************)
(* One call of CUSUM.detect_drift on two samples given directly, statement *)
(* by statement.  As in CusumScan the sums are multiplied by               *)
(* n = len(historical), so that the deviations from the mean stay          *)
(* integers; with n = 0 the mean is NaN and both accumulators stay 0.      *)
(***************************************************************************)
ScanValues == {0, 4000, 8000, Unit}
ScanThresholds == {0, DefaultThreshold, 2 * DefaultThreshold}
ScanSamples == UNION {[1..k -> ScanValues] : k \in 0..MaxScan}

\* A Series of the given values under the labels first, first + 1, ...
SeriesOf(values, first) ==
    [i \in DOMAIN values |-> [index |-> first + i - 1, value |-> values[i]]]

\* Lines 185-187: the locals before the concatenation.
CusumEntry(h, r, threshold) ==
    [pc |-> "concat", historical |-> h, recent |-> r, threshold |-> threshold,
     n |-> Len(h), sumH |-> SumSeq(h), data |-> <<>>, i |-> 0,
     s_pos |-> 0, s_neg |-> 0, drift_indices |-> <<>>, crossed |-> FALSE,
     error |-> None, ret |-> None]

\* Mutant: an iteration that records the index and keeps the sums.
CusumIteration_no_reset(c) ==
    LET deviation == c.data[c.i + 1] * c.n - c.sumH
        pos == IF c.n > 0 /\ c.s_pos + deviation > 0 THEN c.s_pos + deviation ELSE 0
        neg == IF c.n > 0 /\ c.s_neg + deviation < 0 THEN c.s_neg + deviation ELSE 0
        over == pos > c.threshold * c.n \/ neg < -(c.threshold * c.n)
    IN  [c EXCEPT !.i = @ + 1, !.s_pos = pos, !.s_neg = neg, !.crossed = over,
                  !.drift_indices = IF over THEN Append(@, c.i) ELSE @]

\* Lines 190-198: one iteration, on the sample at position i.
CusumIteration(c) ==
    LET deviation == c.data[c.i + 1] * c.n - c.sumH
        pos == IF c.n > 0 /\ c.s_pos + deviation > 0 THEN c.s_pos + deviation ELSE 0
        neg == IF c.n > 0 /\ c.s_neg + deviation < 0 THEN c.s_neg + deviation ELSE 0
        over == pos > c.threshold * c.n \/ neg < -(c.threshold * c.n)
    IN  [c EXCEPT !.i = @ + 1, !.crossed = over,
                  !.s_pos = IF over THEN 0 ELSE pos,
                  !.s_neg = IF over THEN 0 ELSE neg,
                  !.drift_indices = IF over THEN Append(@, c.i) ELSE @]

InitCusum ==
    /\ InitRun /\ ntables = 0
    /\ seed = 1 /\ lib = 1 /\ runs = <<>> /\ probe = <<>>
    /\ \E h \in ScanSamples, r \in ScanSamples, threshold \in ScanThresholds :
         cusum = CusumEntry(h, r, threshold)

\* Line 188
CusumConcat ==
    /\ cusum.pc = "concat"
    /\ \E o \in Series_concat(SeriesOf(cusum.recent, Len(cusum.historical)),
                              SeriesOf(cusum.historical, 0)) :
         cusum' = IF o.kind = "raise"
                  THEN [cusum EXCEPT !.pc = "raised", !.error = Some(o.exc)]
                  ELSE [cusum EXCEPT !.pc = "loop", !.data = o.value]
    /\ UNCHANGED <<single, seeded, probe>>

\* Lines 190-198
CusumStep ==
    /\ cusum.pc = "loop" /\ cusum.i < Len(cusum.data)
    /\ cusum' = CusumIteration(cusum)
    /\ UNCHANGED <<single, seeded, probe>>

\* Lines 200-201
CusumReturn ==
    /\ cusum.pc = "loop" /\ cusum.i = Len(cusum.data)
    /\ cusum' = [cusum EXCEPT !.pc = "returned",
                   !.ret = Some(<<Len(cusum.drift_indices) > 0,
                                  List(cusum.drift_indices)>>)]
    /\ UNCHANGED <<single, seeded, probe>>

NextCusum ==
    \/ CusumConcat
    \/ CusumStep
    \/ CusumReturn

SpecCusum == InitCusum /\ [][NextCusum]_vars

(***************************************************************************)
(* One call of detect_drift on a detector built directly from two frames,  *)
(* which need not come from a split: they can share index labels, and the  *)
(* parameters of the dataclass can be given.                               *)
(***************************************************************************)
FullFrame == Frame([i \in 1..MaxRows |-> Row(i - 1)])
ProbeFrames == {drop(FullFrame, labels) : labels \in SUBSET IndexOf(FullFrame)}

\* detector_class(historical_data, recent_data, **params)
WithParams(self, params) ==
    [k \in DOMAIN self |-> IF k \in DOMAIN params THEN params[k] ELSE self[k]]

NoLocals == [hist_counts |-> <<>>, bin_edges |-> <<>>, recent_counts |-> <<>>]

\* The locals hist_counts, bin_edges and recent_counts of the two detectors
\* that bin their samples.
BinLocals(self, column_name) ==
    CASE MissingColumn(self, column_name) -> NoLocals
      [] self.class = "PSICalculator" -> Binned(self, column_name, self.bins)
      [] self.class = "KLDivergence" -> Binned(self, column_name, self.num_bins)
      [] OTHER -> NoLocals

ProbeEntry(self, column_name) ==
    [pc |-> "call", self |-> self, column_name |-> column_name,
     locals |-> NoLocals, ret |-> None, error |-> None]

InitProbe ==
    /\ InitRun /\ ntables = 0
    /\ seed = 1 /\ lib = 1 /\ runs = <<>> /\ cusum = <<>>
    /\ \E m \in DOMAIN detectors, h \in ProbeFrames, r \in ProbeFrames,
          params \in ParamSets, column_name \in ColNames :
         probe = ProbeEntry(WithParams(Construct(detectors[m], h, r), params),
                            column_name)

ProbeCall ==
    /\ probe.pc = "call"
    /\ \E o \in detect_drift(probe.self, probe.column_name) :
         probe' = IF o.kind = "raise"
                  THEN [probe EXCEPT !.pc = "raised", !.error = Some(o.exc)]
                  ELSE [probe EXCEPT !.pc = "returned", !.ret = Some(o.value),
                                     !.locals = BinLocals(probe.self, probe.column_name)]
    /\ UNCHANGED <<single, seeded, cusum>>

NextProbe == ProbeCall

SpecProbe == InitProbe /\ [][NextProbe]_vars

(***************************************************************************)
(* Properties.                                                             *)
(***************************************************************************)
Terminated == pc \in {"done", "raised"}
RegisteredNames ==
    {"z_test", "psi_calculator", "chi_squared_test", "cramers_v_test", "ks_test",
     "cusum", "kl_divergence"}
ExpectedVariant(name) ==
    CASE name = "z_test" -> "ZTest"
      [] name = "psi_calculator" -> "PSICalculator"
      [] name = "chi_squared_test" -> "ChiSquaredTest"
      [] name = "cramers_v_test" -> "CramersVTest"
      [] name = "ks_test" -> "KSTest"
      [] name = "cusum" -> "CUSUM"
      [] name = "kl_divergence" -> "KLDivergence"
HandlerError(e) == e[1] = "ValueError" /\ e[2] = "Handler does not exist: "
\* The detector the run holds was built for the column entry it holds: not so
\* after a failed dispatch, which leaves the detector of the column before.
DetectorIsCurrent ==
    /\ drift_detector # None
    /\ ~(pc = "raised" /\ error # None /\ HandlerError(error[1]))
Entries(status) == {<<t, c>> \in TableIds \X ColNames :
                       t \in DOMAIN status /\ c \in DOMAIN status[t]}

\* The state right after lines 40-41: every pair of slices a run works on
\* occurs in such a state.
JustSplit == pc = "columns" /\ ci = 0

\* C1: get_drift_detector fails with an error naming the identifier, and
\* builds no detector, for every identifier that is not registered; for a
\* registered name it returns a detector of the variant registered under it.
\* Stated of the call on every pair of slices for every identifier, and of
\* the detector and the error the run holds.
C1_Dispatch ==
    /\ JustSplit => \A m \in MethodIds :
         LET got == get_drift_detector(m, historical_data, current_data)
         IN  IF m \in RegisteredNames
             THEN got.kind = "return" /\ got.value.class = ExpectedVariant(m)
             ELSE got.kind = "raise" /\ HandlerError(got.exc) /\ got.exc[3] = m
    /\ DetectorIsCurrent =>
         /\ column.method \in RegisteredNames
         /\ drift_detector[1].class = ExpectedVariant(column.method)
    /\ (pc = "raised" /\ error # None /\ HandlerError(error[1])) =>
         /\ error[1][3] = column.method
         /\ column.method \notin RegisteredNames
         /\ calls = ci - 1
    /\ (pc = "columns" /\ column # NoColumn) => column.method \in RegisteredNames

C1_Witness ==
    /\ pc = "raised"
    /\ error = Some(<<"ValueError", "Handler does not exist: ", "bogus_test">>)
    /\ calls = 1
    /\ drift_status["a.csv"]["amount"][2] = Num(DefaultAlpha)

\* C2: no statistic in the report is NaN or infinite, and a statistic the
\* detector returned as NaN or infinite is recorded as 0.
C2_Finite ==
    /\ \A e \in Entries(drift_status) :
          drift_status[e[1]][e[2]][2].kind \notin {"nan", "inf"}
    /\ (pc = "columns" /\ ret # None /\ ret[1][2].kind \in {"nan", "inf"}) =>
          /\ <<table.current_table, column.name>> \in Entries(drift_status)
          /\ drift_status[table.current_table][column.name][2] = Num(0)

C2_Witness ==
    /\ pc = "columns" /\ ret # None
    /\ ret[1][2] = PosInf
    /\ drift_status[table.current_table][column.name][2] = Num(0)

\* C3: when the load of a table entry fails, the entries after it are still
\* processed: the run does not stop before the last entry.
C3_LaterTablesProcessed ==
    (Terminated /\ failed_load # {}) => ti = ntables

\* C4: a run that has stopped has emitted its report, with every result it
\* recorded.
C4_AlwaysEmits ==
    Terminated => emitted = Some(drift_status)

RowSet(frame) == {frame.rows[i] : i \in DOMAIN frame.rows}

\* C5: the historical and the recent slice partition the rows of the table
\* they were split from: together they are its rows, they share no row, and
\* no row occurs twice.
C5_Partition ==
    /\ RowSet(historical_data) \cup RowSet(current_data) = RowSet(initial_table)
    /\ RowSet(historical_data) \cap RowSet(current_data) = {}
    /\ Len(historical_data.rows) + Len(current_data.rows) = Len(initial_table.rows)

C5_Witness ==
    /\ Len(initial_table.rows) = 3
    /\ Len(historical_data.rows) = 2
    /\ current_data.rows = <<Row(1)>>

\* C6: every table entry of the configuration whose file can be read has been
\* split exactly once when the run has stopped.
C6_EachEntrySplitOnce ==
    Terminated => \A i \in 1..ntables : i \in failed_load \/ splits[i] = 1

\* The part of C6 that the run keeps: no entry is split twice, an entry that
\* is loaded is split before any detect_drift call for one of its columns,
\* and the detector of each of its columns holds the pair that split produced.
C6_SplitOnce ==
    /\ \A i \in 1..ntables :
          splits[i] = IF i <= ti /\ i \notin failed_load THEN 1 ELSE 0
    /\ calls > 0 => (ti >= 1 /\ splits[ti] = 1)
    /\ drift_detector # None =>
          /\ split_pair # None
          /\ drift_detector[1].historical_data = split_pair[1].historical
          /\ drift_detector[1].recent_data = split_pair[1].current

C6_Witness ==
    /\ ti = 2 /\ splits[1] = 1 /\ splits[2] = 1 /\ calls = 2
    /\ drift_detector # None
    /\ Len(drift_detector[1].recent_data.rows) = 1

\* C7: the detector built for a column entry has, for every parameter the
\* entry gives, the value the entry gives.
C7_ParamsUsed ==
    DetectorIsCurrent =>
        \A k \in DOMAIN column.params :
            k \in DOMAIN drift_detector[1] => drift_detector[1][k] = column.params[k]

C9_AppendOnly ==
    [][\A e \in Entries(drift_status) :
          /\ e \in Entries(drift_status')
          /\ drift_status'[e[1]][e[2]] = drift_status[e[1]][e[2]]]_vars

\* C10: detect_drift of every variant on a column that the historical or the
\* recent slice lacks raises KeyError and returns nothing; the run then ends
\* with that error and the report has no entry for the column.
WithoutColumns(frame) == [frame EXCEPT !.columns = {}]
C10_MissingColumn ==
    /\ JustSplit => \A m \in RegisteredNames, c \in ColNames :
          /\ detect_drift(Construct(detectors[m], WithoutColumns(historical_data),
                                    current_data), c) = {KeyError(c)}
          /\ detect_drift(Construct(detectors[m], historical_data,
                                    WithoutColumns(current_data)), c) = {KeyError(c)}
    /\ (DetectorIsCurrent /\ MissingColumn(drift_detector[1], column.name)) =>
          /\ pc = "raised"
          /\ error = Some(KeyError(column.name).exc)
          /\ <<table.current_table, column.name>> \notin Entries(drift_status)
    /\ (pc = "raised" /\ error # None /\ error[1][1] = "KeyError") =>
          /\ DetectorIsCurrent
          /\ MissingColumn(drift_detector[1], column.name)

C10_Witness ==
    /\ pc = "raised"
    /\ error = Some(<<"KeyError", "", "ghost">>)
    /\ drift_detector # None /\ drift_detector[1].class = "CUSUM"
    /\ calls = 2
    /\ "amount" \in DOMAIN drift_status[table.current_table]

\* C11: two runs over the same configuration and files that start with the
\* generator in the same state end alike: the same report with the same
\* flags and statistics, or the same error; their reports agree all along.
BothEnded == \A r \in DOMAIN runs : runs[r].pc \in {"done", "raised"}
StrictlyIncreasing(q) == \A j, k \in DOMAIN q : j < k => q[j] < q[k]
C13_WhenConcatReturns ==
    /\ cusum.pc \in {"loop", "returned"} =>
          /\ cusum.data = cusum.recent \o cusum.historical
          /\ cusum.n = Len(cusum.historical) /\ cusum.sumH = SumSeq(cusum.historical)
          /\ StrictlyIncreasing(cusum.drift_indices)
          /\ \A k \in DOMAIN cusum.drift_indices :
                /\ 0 <= cusum.drift_indices[k]
                /\ cusum.drift_indices[k] < cusum.i
                /\ cusum.drift_indices[k] < Len(cusum.recent) + Len(cusum.historical)
    /\ cusum.pc = "returned" =>
          /\ cusum.ret[1][1] = (cusum.drift_indices # <<>>)
          /\ cusum.ret[1][2] =
                List(CusumScan(cusum.recent \o cusum.historical, 1, 0, 0, <<>>,
                               Len(cusum.historical), SumSeq(cusum.historical),
                               cusum.threshold))

\* C13: CUSUM.detect_drift scans the recent sample followed by the
\* historical one and returns the positions of the crossings in that
\* sequence, with the flag true exactly when there is one: every call on two
\* samples ends with such a result.
C13_ScanReturnsIndices ==
    /\ cusum.pc # "raised"
    /\ C13_WhenConcatReturns

ProbeValues(frame) == Values(Series(frame, probe.column_name))
Below(q, x) == Cardinality({i \in DOMAIN q : q[i] < x})
Above(q, x) == Cardinality({i \in DOMAIN q : q[i] > x})
Binning == probe.pc = "returned" /\ probe.self.class \in {"PSICalculator", "KLDivergence"}

\* The part of C14 the detectors keep: the edges are those of the
\* historical values alone, and they are the edges the recent values are
\* counted with.
C14_HistoricalEdges ==
    Binning =>
        LET h == np_histogram(ProbeValues(probe.self.historical_data), DefaultBins)
        IN  /\ probe.locals.bin_edges = h.edges
            /\ probe.locals.hist_counts = h.counts
            /\ probe.locals.recent_counts =
                  np_histogram_edges(ProbeValues(probe.self.recent_data), h.edges)
            /\ SumSeq(probe.locals.hist_counts) = Len(probe.self.historical_data.rows)

\* C14: in PSICalculator and KLDivergence every recent value is counted in
\* exactly one bin of the historical edges, one below the historical
\* minimum in the first bin and one above the historical maximum in the
\* last, so that the recent counts sum to the number of recent values.
C14_RecentClipped ==
    Binning =>
        LET rv == ProbeValues(probe.self.recent_data)
            edges == probe.locals.bin_edges
            counts == probe.locals.recent_counts
        IN  /\ SumSeq(counts) = Len(rv)
            /\ counts[1] >= Below(rv, edges[1])
            /\ counts[Len(counts)] >= Above(rv, edges[Len(edges)])

\* The decision rules of the six detectors other than CramersVTest, on the
\* returned pair: p-value < alpha for ChiSquaredTest and KSTest,
\* statistic > threshold for PSICalculator and KLDivergence; ZTest decides
\* abs(z_score) > z_critical, which for the two-sided p-value it returns is
\* p-value < alpha.
C15_TabulatedRules ==
    probe.pc = "returned" =>
        LET flag == probe.ret[1][1]
            stat == probe.ret[1][2]
            self == probe.self
        IN  /\ self.class \in {"ChiSquaredTest", "KSTest", "ZTest"} =>
                  flag = Lt(stat, Num(self.alpha))
            /\ self.class \in {"PSICalculator", "KLDivergence"} =>
                  flag = Gt(stat, Num(self.threshold))

\* C15: the flag a detector returns is decided from the statistic it
\* returns and its parameter by a strict comparison; CramersVTest too decides
\* on the statistic it returns: no call of it can return the same statistic
\* with the other flag.
C15_FlagFromStatistic ==
    /\ C15_TabulatedRules
    /\ (probe.pc = "returned" /\ probe.self.class = "CramersVTest") =>
          \A o \in detect_drift(probe.self, probe.column_name) :
              (o.kind = "return" /\ o.value[2] = probe.ret[1][2])
                  => o.value[1] = probe.ret[1][1]

\* C16: the flag recorded for a column is the flag its detect_drift call
\* returned; the statistic is recorded as returned, or as 0 when it was NaN
\* or infinite: (TRUE, +inf) is recorded as (TRUE, 0), (FALSE, NaN) as
\* (FALSE, 0).
C16_FlagKept ==
    (pc = "columns" /\ ret # None) =>
        /\ <<table.current_table, column.name>> \in Entries(drift_status)
        /\ LET recorded == drift_status[table.current_table][column.name]
           IN  /\ recorded[1] = ret[1][1]
               /\ ret[1][2].kind \in {"nan", "inf"} => recorded = <<ret[1][1], Num(0)>>
               /\ ret[1][2].kind \notin {"nan", "inf"} => recorded = ret[1]

C16_Witness ==
    /\ pc = "columns" /\ ret # None
    /\ ret[1] = <<TRUE, PosInf>>
    /\ drift_status[table.current_table][column.name] = <<TRUE, Num(0)>>
    /\ ci = 2

\* C17: the report of a run that ends without an error has one key for
\* each table id of the configuration and, under it, one key for each
\* column name configured for that table, and no other key.
C17_ReportKeys ==
    pc = "done" =>
        /\ DOMAIN emitted[1] = DOMAIN configured
        /\ \A t \in DOMAIN configured : DOMAIN emitted[1][t] = configured[t]

\* What holds of the keys: the table ids are those configured, and the
\* columns under a table id are those of the last entry with that id.
C17_KeysOfLastEntry ==
    /\ DOMAIN drift_status = DOMAIN configured
    /\ \A t \in DOMAIN configured : DOMAIN drift_status[t] \subseteq configured[t]
    /\ pc = "done" => emitted = Some(drift_status)

====
